---- MODULE Spec2Model ----
(***************************************************************************)
(* setup.py: import YOLO from the model library, load the checkpoint       *)
(* "yolo26n.pt", export the loaded model with format "onnx".               *)
(*                                                                         *)
(* The script is modelled as a straight-line program whose positions are   *)
(* the statement boundaries of setup.py, with every library entry split    *)
(* into its call and its return or raise.  The library itself is not part  *)
(* of the repository: what a call does (its result, its effect on disk)    *)
(* is modelled from the documented contract of Load and Export and is      *)
(* fixed by the world the run starts in (what is installed, what is on     *)
(* disk).  Two executions of the script are modelled side by side: they    *)
(* start in the same world and differ only in command line and             *)
(* environment, each with a disk of its own.                               *)
(***************************************************************************)
EXTENDS Naturals, Sequences, FiniteSets, TLC

\* Longest command line given to a run.
MaxArgs == 1

\* The two executions that are compared.
Runs == {1, 2}

(***************************************************************************)
(* File names.  A name is kept in parts so that the export routine's       *)
(* naming convention (same stem, the format's extension) and the           *)
(* library's checkpoint naming convention (a task suffix after the stem)   *)
(* are computed, not looked up.                                            *)
(***************************************************************************)
FileName(base, task, ext) == [base |-> base, task |-> task, ext |-> ext]

NoName == FileName("", "", "")

\* setup.py:7, the literal "yolo26n.pt".
CheckpointName == FileName("yolo26n", "", "pt")

\* A mutant of ExportFormat: another format of the export routine.
ExportFormatTorchscript == "torchscript"

\* setup.py:10, the literal "onnx".
ExportFormat == "onnx"

\* Another checkpoint on disk, which a command line could name.
OtherCheckpoint == FileName("best", "", "pt")

ArgTokens == {OtherCheckpoint}

EnvNames == {"YOLO_MODEL"}

RECURSIVE SeqsUpTo(_, _)
SeqsUpTo(S, n) ==
    IF n = 0 THEN {<<>>}
    ELSE LET shorter == SeqsUpTo(S, n - 1)
         IN  shorter \cup {Append(s, x) : s \in shorter, x \in S}

ArgvSet == SeqsUpTo(ArgTokens, MaxArgs)

EnvSet == SUBSET EnvNames

(***************************************************************************)
(* Files on disk.                                                          *)
(***************************************************************************)
Absent == [kind |-> "none", fmt |-> "", size |-> 0]

ValidCheckpoint == [kind |-> "ckpt", fmt |-> "pt", size |-> 1]

CorruptCheckpoint == [kind |-> "ckpt", fmt |-> "garbage", size |-> 1]

Graph(fmt, size) == [kind |-> "graph", fmt |-> fmt, size |-> size]

ReadFile(d, f) == IF f \in DOMAIN d THEN d[f] ELSE Absent

WriteFile(d, f, c) ==
    [g \in (DOMAIN d) \cup {f} |-> IF g = f THEN c ELSE d[g]]

(***************************************************************************)
(* The library, from its documented contract.                              *)
(***************************************************************************)
SupportedFormats == {"onnx", "torchscript"}

\* The export routine names its output after the checkpoint: same stem,
\* the extension of the format.
ArtifactName(ckpt, fmt) == FileName(ckpt.base, ckpt.task, fmt)

\* The library's naming convention for pretrained checkpoints: the task is
\* the suffix after the stem, and a name without a suffix is the detection
\* model.
PretrainedTask(name) ==
    CASE name.task = "-cls"  -> "classify"
      [] name.task = "-seg"  -> "segment"
      [] name.task = "-pose" -> "pose"
      [] name.task = "-obb"  -> "obb"
      [] OTHER               -> "detect"

NoModel == [ckpt |-> NoName, task |-> "none"]

\* Load: given a checkpoint filename, construct an in-memory model object.
LoadResult(name) == [ckpt |-> name, task |-> PretrainedTask(name)]

\* Load fails on a missing file and on a file it cannot parse.
LoadError(d, name) ==
    LET f == ReadFile(d, name)
    IN  IF f.kind = "none" THEN "FileNotFoundError"
        ELSE IF f # ValidCheckpoint THEN "UnpicklingError"
        ELSE "none"

\* Export fails on an unsupported format and when the exporter's own
\* dependencies are missing or incompatible.
ExportError(w, fmt) ==
    IF fmt \notin SupportedFormats THEN "ValueError"
    ELSE IF ~w.exporterReady THEN "ImportError"
    ELSE "none"

\* Export: given the in-memory model object and a target-format identifier,
\* produce an output artifact on disk.
ExportWrite(d, m, fmt) ==
    WriteFile(d, ArtifactName(m.ckpt, fmt), Graph(fmt, 1))

\* What a failed export may leave behind: nothing, or a truncated artifact.
ExportLeftovers(d, m, fmt) ==
    {d, WriteFile(d, ArtifactName(m.ckpt, fmt), Graph(fmt, 0))}

(***************************************************************************)
(* The script.                                                             *)
(***************************************************************************)
VARIABLES
    world,    \* what the runs start in: the library installed, the disk
    argv,     \* argv[r]: the command line of run r
    env,      \* env[r]: the environment variables set for run r
    pc,       \* pc[r]: the position of run r in setup.py
    model,    \* model[r]: the module variable `model`
    calls,    \* calls[r]: the library entry points invoked so far, in order
    active,   \* active[r]: the library calls in progress
    returned, \* returned[r]: the object Load handed back
    raised,   \* raised[r]: the exception the library raised
    exitErr,  \* exitErr[r]: the exception that reached the process boundary
    disk      \* disk[r]: the files of run r

vars == <<world, argv, env, pc, model, calls, active, returned, raised,
          exitErr, disk>>

FailedStates == {"import_failed", "load_failed", "export_failed"}

FinalStates == FailedStates \cup {"done"}

Worlds ==
    { [installed |-> i, exporterReady |-> x,
       disk |-> [f \in {CheckpointName, OtherCheckpoint,
                        ArtifactName(CheckpointName, "onnx")} |->
                    IF f = CheckpointName THEN c
                    ELSE IF f = OtherCheckpoint THEN ValidCheckpoint
                    ELSE a]] :
        i \in BOOLEAN, x \in BOOLEAN,
        c \in {Absent, CorruptCheckpoint, ValidCheckpoint},
        a \in {Absent, Graph("onnx", 1)} }

Init ==
    /\ world \in Worlds
    /\ argv \in [Runs -> ArgvSet]
    /\ env \in [Runs -> EnvSet]
    /\ pc = [r \in Runs |-> "start"]
    /\ model = [r \in Runs |-> NoModel]
    /\ calls = [r \in Runs |-> <<>>]
    /\ active = [r \in Runs |-> {}]
    /\ returned = [r \in Runs |-> NoModel]
    /\ raised = [r \in Runs |-> "none"]
    /\ exitErr = [r \in Runs |-> "none"]
    /\ disk = [r \in Runs |-> world.disk]

\* A mutant of Propagate: a handler that turns every error into an exit.
Translate(e) == "SystemExit"

\* setup.py has no try/except: an exception raised at any of its statements
\* is the one that ends the process.
Propagate(e) == e

\* A mutant of LoadArg: the checkpoint is taken from the command line.
LoadArgFromArgv(a, e) == IF a # <<>> THEN a[1] ELSE CheckpointName

\* setup.py:7, the argument of YOLO(...): a literal, whatever the command
\* line and the environment are.
LoadArg(a, e) == CheckpointName

\* setup.py:10, the format argument of export(...).
FormatArg(a, e) == ExportFormat

\* A mutant of ExportReady: export is started while Load is still running.
ExportReadyEarly(r) == pc[r] \in {"loading", "loaded"}

\* setup.py:10 is reached when setup.py:7 has completed.
ExportReady(r) == pc[r] = "loaded"

\* A mutant of AfterLoadRaise: Load is tried again after it failed.
AfterLoadRaiseRetry == "imported"

\* setup.py:7 raising ends the script.
AfterLoadRaise == "load_failed"

LoadCall(name) == [fn |-> "YOLO", file |-> name, fmt |-> "", recv |-> NoModel]

ExportCall(m, fmt) == [fn |-> "export", file |-> NoName, fmt |-> fmt, recv |-> m]

\* setup.py:4, `from ultralytics import YOLO`, the library installed.
ImportYOLO(r) ==
    /\ pc[r] = "start"
    /\ world.installed
    /\ pc' = [pc EXCEPT ![r] = "imported"]
    /\ UNCHANGED <<world, argv, env, model, calls, active, returned, raised,
                   exitErr, disk>>

\* setup.py:4 with the library not installed (setup.py:1-2).
ImportRaise(r) ==
    /\ pc[r] = "start"
    /\ ~world.installed
    /\ raised' = [raised EXCEPT ![r] = "ModuleNotFoundError"]
    /\ exitErr' = [exitErr EXCEPT ![r] = Propagate("ModuleNotFoundError")]
    /\ pc' = [pc EXCEPT ![r] = "import_failed"]
    /\ UNCHANGED <<world, argv, env, model, calls, active, returned, disk>>

\* setup.py:7, the call YOLO("yolo26n.pt") is entered.
YOLO_Call(r) ==
    /\ pc[r] = "imported"
    /\ calls' = [calls EXCEPT ![r] = Append(@, LoadCall(LoadArg(argv[r], env[r])))]
    /\ active' = [active EXCEPT ![r] = @ \cup {"YOLO"}]
    /\ pc' = [pc EXCEPT ![r] = "loading"]
    /\ UNCHANGED <<world, argv, env, model, returned, raised, exitErr, disk>>

\* setup.py:7, YOLO(...) returns and its result is bound to `model`.
YOLO_Return(r) ==
    /\ pc[r] = "loading"
    /\ "YOLO" \in active[r]
    /\ LET name == calls[r][Len(calls[r])].file
       IN  /\ LoadError(disk[r], name) = "none"
           /\ returned' = [returned EXCEPT ![r] = LoadResult(name)]
           /\ model' = [model EXCEPT ![r] = LoadResult(name)]
    /\ active' = [active EXCEPT ![r] = @ \ {"YOLO"}]
    /\ pc' = [pc EXCEPT ![r] = "loaded"]
    /\ UNCHANGED <<world, argv, env, calls, raised, exitErr, disk>>

\* setup.py:7, YOLO(...) raises.
YOLO_Raise(r) ==
    /\ pc[r] = "loading"
    /\ "YOLO" \in active[r]
    /\ LET e == LoadError(disk[r], calls[r][Len(calls[r])].file)
       IN  /\ e # "none"
           /\ raised' = [raised EXCEPT ![r] = e]
           /\ exitErr' = [exitErr EXCEPT ![r] = Propagate(e)]
    /\ active' = [active EXCEPT ![r] = @ \ {"YOLO"}]
    /\ pc' = [pc EXCEPT ![r] = AfterLoadRaise]
    /\ UNCHANGED <<world, argv, env, model, calls, returned, disk>>

\* setup.py:10, the call model.export(format="onnx") is entered.
export_Call(r) ==
    /\ ExportReady(r)
    /\ calls' = [calls EXCEPT
                   ![r] = Append(@, ExportCall(model[r], FormatArg(argv[r], env[r])))]
    /\ active' = [active EXCEPT ![r] = @ \cup {"export"}]
    /\ pc' = [pc EXCEPT ![r] = "exporting"]
    /\ UNCHANGED <<world, argv, env, model, returned, raised, exitErr, disk>>

\* A mutant of export_Return: after the export the script saves the model
\* back over the checkpoint it loaded.
export_ReturnThenSave(r) ==
    /\ pc[r] = "exporting"
    /\ LET c == calls[r][Len(calls[r])]
       IN  /\ ExportError(world, c.fmt) = "none"
           /\ disk' = [disk EXCEPT
                         ![r] = WriteFile(ExportWrite(@, c.recv, c.fmt),
                                          c.recv.ckpt,
                                          [kind |-> "ckpt", fmt |-> "pt", size |-> 2])]
    /\ active' = [active EXCEPT ![r] = @ \ {"export"}]
    /\ pc' = [pc EXCEPT ![r] = "done"]
    /\ UNCHANGED <<world, argv, env, model, calls, returned, raised, exitErr>>

\* setup.py:10, export(...) returns; the script ends.
export_Return(r) ==
    /\ pc[r] = "exporting"
    /\ LET c == calls[r][Len(calls[r])]
       IN  /\ ExportError(world, c.fmt) = "none"
           /\ disk' = [disk EXCEPT ![r] = ExportWrite(@, c.recv, c.fmt)]
    /\ active' = [active EXCEPT ![r] = @ \ {"export"}]
    /\ pc' = [pc EXCEPT ![r] = "done"]
    /\ UNCHANGED <<world, argv, env, model, calls, returned, raised, exitErr>>

\* setup.py:10, export(...) raises.
export_Raise(r) ==
    /\ pc[r] = "exporting"
    /\ LET c == calls[r][Len(calls[r])]
           e == ExportError(world, c.fmt)
       IN  /\ e # "none"
           /\ raised' = [raised EXCEPT ![r] = e]
           /\ exitErr' = [exitErr EXCEPT ![r] = Propagate(e)]
           /\ \E d \in ExportLeftovers(disk[r], c.recv, c.fmt) :
                  disk' = [disk EXCEPT ![r] = d]
    /\ active' = [active EXCEPT ![r] = @ \ {"export"}]
    /\ pc' = [pc EXCEPT ![r] = "export_failed"]
    /\ UNCHANGED <<world, argv, env, model, calls, returned>>

RunStep(r) ==
    \/ ImportYOLO(r)
    \/ ImportRaise(r)
    \/ YOLO_Call(r)
    \/ YOLO_Return(r)
    \/ YOLO_Raise(r)
    \/ export_Call(r)
    \/ export_Return(r)
    \/ export_Raise(r)

Next == \E r \in Runs : RunStep(r)

Spec == Init /\ [][Next]_vars

\* Each statement completes: the interpreter runs the script to its end and
\* every library call returns or raises.
FairSpec == Spec /\ \A r \in Runs : WF_vars(RunStep(r))

(***************************************************************************)
(* Properties.                                                             *)
(***************************************************************************)
\* The names the claims speak of, written out: "yolo26n.pt", "yolo26n.onnx".
ExpectedCheckpoint == FileName("yolo26n", "", "pt")

ExpectedArtifact == FileName("yolo26n", "", "onnx")

LoadCount(r) == Cardinality({i \in 1..Len(calls[r]) : calls[r][i].fn = "YOLO"})

ExportCount(r) == Cardinality({i \in 1..Len(calls[r]) : calls[r][i].fn = "export"})

\* C1: in every run where Load of "yolo26n.pt" and Export with format "onnx"
\* both succeed, the script ends with the ONNX artifact on disk, non-empty.
C1_ExportProducesArtifact ==
    \A r \in Runs :
        pc[r] = "done" =>
            LET a == ReadFile(disk[r], ExpectedArtifact)
            IN  /\ a.kind = "graph"
                /\ a.fmt = "onnx"
                /\ a.size > 0

\* A run that ended after both calls, on a disk that had no artifact before.
C1_Witness ==
    \E r \in Runs :
        /\ pc[r] = "done"
        /\ ReadFile(world.disk, ExpectedArtifact) = Absent

\* C2: the script invokes Load and then Export and nothing else; Export
\* starts only after Load has returned successfully, on the very object Load
\* returned; at most one library call is in progress; a run that ends
\* normally has made both calls.
C2_LoadThenExport ==
    \A r \in Runs :
        /\ Cardinality(active[r]) <= 1
        /\ Len(calls[r]) <= 2
        /\ Len(calls[r]) >= 1 => calls[r][1].fn = "YOLO"
        /\ Len(calls[r]) >= 2 =>
              /\ calls[r][2].fn = "export"
              /\ returned[r] # NoModel
              /\ calls[r][2].recv = returned[r]
              /\ "YOLO" \notin active[r]
        /\ pc[r] = "done" => Len(calls[r]) = 2
        /\ pc[r] \in {"loaded", "exporting", "done", "export_failed"} =>
              model[r] = returned[r]

\* Export is in progress, on the object Load returned.
C2_Witness ==
    \E r \in Runs :
        /\ pc[r] = "exporting"
        /\ active[r] = {"export"}
        /\ calls[r][2].recv = returned[r]
        /\ returned[r] # NoModel

\* C3: an exception raised by the library reaches the process boundary
\* unchanged and ends the script: after a failed Load there is no Export call
\* and the disk is as it was; after a failed Export the script is in its
\* failed state; no call is made again and no step follows a failure.
C3_FailurePropagates ==
    \A r \in Runs :
        /\ raised[r] # "none" =>
              /\ pc[r] \in FailedStates
              /\ exitErr[r] = raised[r]
              /\ active[r] = {}
        /\ pc[r] \in FailedStates =>
              /\ raised[r] # "none"
              /\ ~ENABLED RunStep(r)
        /\ pc[r] = "load_failed" =>
              /\ LoadCount(r) = 1
              /\ ExportCount(r) = 0
              /\ model[r] = NoModel
              /\ disk[r] = world.disk
        /\ pc[r] = "export_failed" =>
              /\ LoadCount(r) = 1
              /\ ExportCount(r) = 1

\* Load failed on a missing checkpoint.
C3_Witness ==
    \E r \in Runs :
        /\ pc[r] = "load_failed"
        /\ exitErr[r] = "FileNotFoundError"

\* C4: every Load call is given "yolo26n.pt" and every Export call "onnx",
\* and two runs that differ only in command line and environment have made
\* the same calls with the same arguments when they end.
C4_FixedInputs ==
    /\ \A r \in Runs : \A i \in 1..Len(calls[r]) :
          /\ calls[r][i].fn = "YOLO" => calls[r][i].file = ExpectedCheckpoint
          /\ calls[r][i].fn = "export" => calls[r][i].fmt = "onnx"
    /\ \A r1 \in Runs, r2 \in Runs :
          (pc[r1] \in FinalStates /\ pc[r2] \in FinalStates) =>
              calls[r1] = calls[r2]

\* Two runs with different command lines and environments, both ended after
\* both calls.
C4_Witness ==
    \E r1 \in Runs, r2 \in Runs :
        /\ argv[r1] # argv[r2]
        /\ env[r1] # env[r2]
        /\ pc[r1] = "done"
        /\ pc[r2] = "done"

\* C5: whatever the run does, every file but the exported artifact is as it
\* was when the run started (the checkpoint neither created, modified nor
\* deleted), and the artifact changes only once Export has been called.
C5_OnlyArtifactWritten ==
    \A r \in Runs :
        /\ \A f \in (DOMAIN disk[r]) \cup (DOMAIN world.disk) :
              f # ExpectedArtifact =>
                  ReadFile(disk[r], f) = ReadFile(world.disk, f)
        /\ disk[r] # world.disk => ExportCount(r) = 1

\* A run that ended normally and changed the disk.
C5_Witness ==
    \E r \in Runs :
        /\ pc[r] = "done"
        /\ disk[r] # world.disk
        /\ ReadFile(disk[r], ExpectedCheckpoint) = ValidCheckpoint

\* C6: the model the script loads is the classification model.
C6_ClassificationModelLoaded ==
    \A r \in Runs :
        model[r] # NoModel => model[r].task = "classify"

\* C7 as stated: a run that can take no further step is in one of the three
\* states load failed, export failed, done, and has invoked Load exactly once.
C7_ThreeFinalStates ==
    \A r \in Runs :
        ~ENABLED RunStep(r) =>
            /\ pc[r] \in {"load_failed", "export_failed", "done"}
            /\ LoadCount(r) = 1

\* C7, amended: every run ends in one of the four states import failed, load
\* failed, export failed, done; Load and Export are each invoked at most once,
\* and Load exactly once in every run that got past the import.
C7_Terminates ==
    /\ \A r \in Runs : <>(pc[r] \in FinalStates)
    /\ [](\A r \in Runs :
            /\ LoadCount(r) <= 1
            /\ ExportCount(r) <= 1
            /\ pc[r] \in {"load_failed", "export_failed", "done"} =>
                  LoadCount(r) = 1
            /\ pc[r] \in {"start", "imported", "import_failed"} =>
                  LoadCount(r) = 0)

\* Every run has ended, one of them at the import.
C7_Witness ==
    /\ \A r \in Runs : pc[r] \in FinalStates
    /\ \E r \in Runs : pc[r] = "import_failed" /\ calls[r] = <<>>

====
